---- MODULE Spec2Model ----
(***************************************************************************)
(* Model of src/python/pants/backend/project_info/paths.py: the generator  *)
(* find_paths_breadth_first, stepped statement by statement under a caller *)
(* that pulls from it, and the rules of the `paths` goal that fan out over *)
(* roots and destinations.                                                 *)
(***************************************************************************)
EXTENDS Integers, Sequences, FiniteSets, Bags, TLC

(***************************************************************************)
(* Addresses and adjacency maps                                            *)
(***************************************************************************)

\* The addresses of the model.  SmallNodes carry every adjacency map of at
\* most MaxEdges entries; the named graphs below use all of Nodes.
Nodes == {"A", "B", "C", "D", "E"}

SmallNodes == {"A", "B", "C"}

\* Python's None, the prev_target of the path [from_target].
None == "None"

\* Total number of successor entries of an enumerated adjacency map.
MaxEdges == 3

\* console.print_stderr fires when edges_visited has advanced by this much.
EdgeProgressStep == 1000

\* console.print_stderr fires at every multiple of this many found paths.
FoundProgressStep == 100

Last(path) == path[Len(path)]

Range(seq) == {seq[i] : i \in DOMAIN seq}

\* adjacency_lists.get(target, []), each Target read through dep.address
Get(adj, target) == IF target \in DOMAIN adj THEN adj[target] ELSE <<>>

RECURSIVE Concat(_)
\* The concatenation of a sequence of sequences.
Concat(seqs) == IF Len(seqs) = 0 THEN <<>> ELSE Head(seqs) \o Concat(Tail(seqs))

RECURSIVE ReachableFrom(_, _)
\* The nodes reachable from a set of nodes, the set included.
ReachableFrom(adj, set) ==
    LET more == set \cup UNION {Range(Get(adj, n)) : n \in set}
    IN  IF more = set THEN set ELSE ReachableFrom(adj, more)

\* Mutant: the edge forgets prev_target, so a node is expanded only once.
CurrentEdgeNodeOnly(path) == <<None, path[Len(path)]>>

\* current_edge = (prev_target, target) of a path
CurrentEdge(path) ==
    IF Len(path) > 1
    THEN <<path[Len(path) - 1], path[Len(path)]>>
    ELSE <<None, path[Len(path)]>>

\* The successors of n in an edge list, in the order of the list.
SuccOf(edges, n) ==
    LET sel == SelectSeq(edges, LAMBDA e : e[1] = n)
    IN  [i \in 1 .. Len(sel) |-> sel[i][2]]

\* The dict with a key for every node of `keys` and every source of an edge.
AdjOf(edges, keys) ==
    [n \in keys \cup {edges[i][1] : i \in DOMAIN edges} |-> SuccOf(edges, n)]

EdgeLists == UNION {[1 .. k -> SmallNodes \X SmallNodes] : k \in 0 .. MaxEdges}

\* Every adjacency map over SmallNodes with at most MaxEdges entries:
\* duplicates, self loops, empty lists and missing keys included.
SmallMaps == {AdjOf(e, k) : e \in EdgeLists, k \in SUBSET SmallNodes}

\* A->B, A->C, B->D, C->D; D is not a key.
DiamondGraph ==
    AdjOf(<< <<"A", "B">>, <<"A", "C">>, <<"B", "D">>, <<"C", "D">> >>, {})

\* A->B, B->A, A->C; C has an empty list.
CycleGraph ==
    AdjOf(<< <<"A", "B">>, <<"A", "C">>, <<"B", "A">> >>, {"C"})

\* Two routes into C, then the tail C->D->E.
SharedTailGraph ==
    AdjOf(<< <<"A", "B">>, <<"A", "C">>, <<"B", "C">>, <<"C", "D">>,
             <<"D", "E">> >>, {"E"})

\* A short route A->B->E listed before a long one A->C->D->E.
TwoRoutesGraph ==
    AdjOf(<< <<"A", "B">>, <<"A", "C">>, <<"B", "E">>, <<"C", "D">>,
             <<"D", "E">> >>, {"E"})

NamedGraphs == {DiamondGraph, CycleGraph, SharedTailGraph, TwoRoutesGraph}

\* A has FoundProgressStep direct routes to B and one more through C.
FanGraph ==
    [n \in {"A", "C"} |->
        IF n = "A"
        THEN [k \in 1 .. FoundProgressStep + 1 |->
                 IF k <= FoundProgressStep THEN "B" ELSE "C"]
        ELSE <<"B">>]

\* The calls in which the count of found paths reaches a multiple of
\* FoundProgressStep.
ProgressCalls == [adj : {FanGraph}, from : {"A"}, to : {"B"}]

\* The arguments of one call of find_paths_breadth_first.
Calls ==
    [adj : SmallMaps, from : SmallNodes, to : SmallNodes]
        \cup [adj : NamedGraphs, from : Nodes, to : Nodes]

(***************************************************************************)
(* State                                                                   *)
(***************************************************************************)
VARIABLES
    adjacency_lists,      \* argument: dict[Address, Targets]
    from_target,          \* argument
    to_target,            \* argument
    console_raises,       \* argument: whether console.print_stderr raises
    visited_edges,        \* set of (prev_target, target)
    to_walk_paths,        \* deque of partial paths
    paths_found,
    edges_visited,
    last_progress_update,
    cur_path,             \* the path popped last
    dep_index,            \* position of the for loop in the successor list
    pc,                   \* where the generator resumes
    caller,               \* "idle": holds control, "next": inside next(),
                          \* "stopped": has dropped the generator
    yielded,              \* every path handed to the caller, in order
    expanded,             \* every path whose successors were read, in order
    enqueued,             \* every path put into the deque, in order
    adjacency_reads,      \* number of adjacency_lists.get calls
    pulls,                \* number of next() calls
    stderr,               \* the lines console.print_stderr received
    \* the `paths` goal
    path_from,            \* paths_subsystem.from_
    path_to,              \* paths_subsystem.to
    dependencies,         \* the build graph: the Dependencies of each target
    broken,               \* the roots whose transitive targets cannot be resolved
    goal_pc,              \* where the goal rule stands
    from_tgts,
    to_tgts,
    root_task,            \* get_paths_between_root_and_destinations, per root
    pair_task,            \* get_paths_between_root_and_destination, per pair
    provider_calls,       \* per root: the resolutions requested for it
    finished,             \* the pairs in the order their tasks returned
    console,              \* the lines the rules printed to stderr, as a bag
    stdout,               \* what was written to the output sink
    exit_code,
    error                 \* the exception the goal raised, or None

gen_vars ==
    <<visited_edges, to_walk_paths, paths_found, edges_visited,
      last_progress_update, cur_path, dep_index, pc, yielded, expanded,
      enqueued, adjacency_reads, stderr>>

arg_vars == <<adjacency_lists, from_target, to_target, console_raises>>

bfs_vars == <<arg_vars, gen_vars, caller, pulls>>

goal_vars ==
    <<path_from, path_to, dependencies, broken, goal_pc, from_tgts, to_tgts,
      root_task, pair_task, provider_calls, finished, console, stdout,
      exit_code, error>>

vars == <<bfs_vars, goal_vars>>

\* The goal rule is not running: the state of its variables in a search
\* that is stepped on its own.
GoalIdle ==
    /\ path_from = None
    /\ path_to = None
    /\ dependencies = <<>>
    /\ broken = {}
    /\ goal_pc = "idle"
    /\ from_tgts = <<>>
    /\ to_tgts = <<>>
    /\ root_task = <<>>
    /\ pair_task = <<>>
    /\ provider_calls = <<>>
    /\ finished = <<>>
    /\ console = EmptyBag
    /\ stdout = <<>>
    /\ exit_code = None
    /\ error = None

(***************************************************************************)
(* find_paths_breadth_first                                                *)
(***************************************************************************)

\* The generator object right after the call: no statement has run yet.
Created ==
    /\ visited_edges = {}
    /\ to_walk_paths = <<>>
    /\ paths_found = 0
    /\ edges_visited = 0
    /\ last_progress_update = 0
    /\ cur_path = <<>>
    /\ dep_index = 0
    /\ pc = "start"
    /\ caller = "idle"
    /\ yielded = <<>>
    /\ expanded = <<>>
    /\ enqueued = <<>>
    /\ adjacency_reads = 0
    /\ pulls = 0
    /\ stderr = <<>>

\* A call with a console that prints.
Init ==
    /\ \E c \in Calls :
        /\ adjacency_lists = c.adj
        /\ from_target = c.from
        /\ to_target = c.to
    /\ console_raises = FALSE
    /\ Created
    /\ GoalIdle

\* A call that reaches a progress message, with a console that prints or
\* with one whose print_stderr raises.
InitProgress ==
    /\ \E c \in ProgressCalls :
        /\ adjacency_lists = c.adj
        /\ from_target = c.from
        /\ to_target = c.to
    /\ console_raises \in BOOLEAN
    /\ Created
    /\ GoalIdle

\* A generator runs only inside a next() call of its caller.
Running == caller = "next"

\* Mutant: the path is collected and the generator runs on.
YieldEager(path) ==
    /\ yielded' = Append(yielded, path)
    /\ caller' = caller

\* `yield path`: the path goes to the caller, which takes control back.
Yield(path) ==
    /\ yielded' = Append(yielded, path)
    /\ caller' = "idle"

\* Mutant: lines 66-68 are missing, the search starts whatever the pair.
StartNoSelfCheck ==
    /\ pc = "start"
    /\ Running
    /\ visited_edges' = {}
    /\ to_walk_paths' = << <<from_target>> >>
    /\ paths_found' = 0
    /\ edges_visited' = 0
    /\ last_progress_update' = 0
    /\ enqueued' = << <<from_target>> >>
    /\ pc' = "while"
    /\ UNCHANGED <<goal_vars, arg_vars, cur_path, dep_index, expanded, adjacency_reads,
                   pulls, stderr, yielded, caller>>

\* Lines 66-74: the self-path case, else the set-up of the search.
Start ==
    /\ pc = "start"
    /\ Running
    /\ IF from_target = to_target
       THEN /\ Yield(<<from_target>>)
            /\ pc' = "return"
            /\ UNCHANGED <<visited_edges, to_walk_paths, paths_found,
                           edges_visited, last_progress_update, enqueued>>
       ELSE /\ visited_edges' = {}
            /\ to_walk_paths' = << <<from_target>> >>
            /\ paths_found' = 0
            /\ edges_visited' = 0
            /\ last_progress_update' = 0
            /\ enqueued' = << <<from_target>> >>
            /\ pc' = "while"
            /\ UNCHANGED <<yielded, caller>>
    /\ UNCHANGED <<goal_vars, arg_vars, cur_path, dep_index, expanded, adjacency_reads,
                   pulls, stderr>>

\* Mutant: to_walk_paths.pop(), the deque used as a stack.
PopRight(queue) ==
    [path |-> queue[Len(queue)], rest |-> SubSeq(queue, 1, Len(queue) - 1)]

\* Mutant: to_walk_paths[0], the path is read and left in the deque.
PeekLeft(queue) == [path |-> Head(queue), rest |-> queue]

\* Line 77: cur_path = to_walk_paths.popleft()
PopLeft(queue) == [path |-> Head(queue), rest |-> Tail(queue)]

\* Lines 76-92: one turn of the while loop up to the head of the for loop.
Dequeue ==
    /\ pc = "while"
    /\ Running
    /\ Len(to_walk_paths) > 0
    /\ LET popped == PopLeft(to_walk_paths)
           current_edge == CurrentEdge(popped.path)
       IN  /\ cur_path' = popped.path
           /\ to_walk_paths' = popped.rest
           /\ IF current_edge \notin visited_edges
              THEN /\ edges_visited' = edges_visited + 1
                   /\ IF /\ edges_visited' - last_progress_update
                               >= EdgeProgressStep
                         /\ console_raises
                      THEN \* line 89 raises out of the generator
                           /\ pc' = "raised"
                           /\ caller' = "raised"
                           /\ UNCHANGED <<stderr, last_progress_update,
                                          adjacency_reads, expanded,
                                          dep_index>>
                      ELSE /\ IF edges_visited' - last_progress_update
                                    >= EdgeProgressStep
                              THEN /\ stderr' = Append(stderr,
                                          [text |-> "Exploring paths...",
                                           found |-> paths_found,
                                           edges |-> edges_visited'])
                                   /\ last_progress_update' = edges_visited'
                              ELSE UNCHANGED <<stderr, last_progress_update>>
                           /\ adjacency_reads' = adjacency_reads + 1
                           /\ expanded' = Append(expanded, popped.path)
                           /\ dep_index' = 1
                           /\ pc' = "for"
                           /\ UNCHANGED caller
              ELSE UNCHANGED <<edges_visited, stderr, last_progress_update,
                               adjacency_reads, expanded, dep_index, pc,
                               caller>>
    /\ UNCHANGED <<goal_vars, arg_vars, visited_edges, paths_found, yielded,
                   enqueued, pulls>>

\* Mutant: the successor list is walked from its end.
DepsReversed(adj, target) ==
    LET deps == Get(adj, target)
    IN  [i \in 1 .. Len(deps) |-> deps[Len(deps) + 1 - i]]

\* Line 92: the successor list the for loop walks, in its order.
Deps(adj, target) == Get(adj, target)

\* Mutant: the comparison is inverted.
IsNotDestination(dep, to) == dep # to

\* Line 94: dep.address == to_target
IsDestination(dep, to) == dep = to

\* Mutant: cur_path[:-1] + [dep.address], the last node is replaced.
DepPathReplacesLast(path, dep) ==
    Append(SubSeq(path, 1, Len(path) - 1), dep)

\* Mutant: [cur_path[0], dep.address], the nodes in between are lost.
DepPathFromRoot(path, dep) == <<path[1], dep>>

\* Line 93: dep_path = cur_path + [dep.address]
DepPath(path, dep) == Append(path, dep)

\* Mutant: to_walk_paths.appendleft(dep_path)
EnqueueLeft(queue, dep_path) == <<dep_path>> \o queue

\* Line 100: to_walk_paths.append(dep_path)
Enqueue(queue, dep_path) == Append(queue, dep_path)

\* Lines 92-100: one turn of the for loop.
ForDep ==
    /\ pc = "for"
    /\ Running
    /\ LET deps == Deps(adjacency_lists, Last(cur_path))
       IN  /\ dep_index <= Len(deps)
           /\ LET dep_path == DepPath(cur_path, deps[dep_index])
              IN  IF IsDestination(deps[dep_index], to_target)
                  THEN /\ paths_found' = paths_found + 1
                       /\ IF /\ paths_found' % FoundProgressStep = 0
                             /\ console_raises
                          THEN \* line 97 raises out of the generator
                               /\ pc' = "raised"
                               /\ caller' = "raised"
                               /\ UNCHANGED <<stderr, yielded, dep_index>>
                          ELSE /\ IF paths_found' % FoundProgressStep = 0
                                  THEN stderr' = Append(stderr,
                                           [text |-> "Found paths so far...",
                                            found |-> paths_found',
                                            edges |-> edges_visited])
                                  ELSE UNCHANGED stderr
                               /\ Yield(dep_path)
                               /\ dep_index' = dep_index + 1
                               /\ UNCHANGED pc
                       /\ UNCHANGED <<to_walk_paths, enqueued>>
                  ELSE /\ to_walk_paths' = Enqueue(to_walk_paths, dep_path)
                       /\ enqueued' = Append(enqueued, dep_path)
                       /\ dep_index' = dep_index + 1
                       /\ UNCHANGED <<paths_found, stderr, yielded, caller,
                                      pc>>
    /\ UNCHANGED <<goal_vars, arg_vars, visited_edges, edges_visited,
                   last_progress_update, cur_path, expanded,
                   adjacency_reads, pulls>>

\* Mutant: line 101 records the edge without its predecessor.
ForEndWrongEdge ==
    /\ pc = "for"
    /\ Running
    /\ dep_index > Len(Deps(adjacency_lists, Last(cur_path)))
    /\ visited_edges' = visited_edges \cup {<<None, Last(cur_path)>>}
    /\ pc' = "while"
    /\ UNCHANGED <<goal_vars, arg_vars, to_walk_paths, paths_found, edges_visited,
                   last_progress_update, cur_path, dep_index, yielded,
                   expanded, enqueued, adjacency_reads, stderr, caller, pulls>>

\* Mutant: line 101 is missing, no edge is ever recorded.
ForEndNoAdd ==
    /\ pc = "for"
    /\ Running
    /\ dep_index > Len(Deps(adjacency_lists, Last(cur_path)))
    /\ visited_edges' = visited_edges
    /\ pc' = "while"
    /\ UNCHANGED <<goal_vars, arg_vars, to_walk_paths, paths_found, edges_visited,
                   last_progress_update, cur_path, dep_index, yielded,
                   expanded, enqueued, adjacency_reads, stderr, caller, pulls>>

\* Line 101: visited_edges.add(current_edge), after the for loop.
ForEnd ==
    /\ pc = "for"
    /\ Running
    /\ dep_index > Len(Deps(adjacency_lists, Last(cur_path)))
    /\ visited_edges' = visited_edges \cup {CurrentEdge(cur_path)}
    /\ pc' = "while"
    /\ UNCHANGED <<goal_vars, arg_vars, to_walk_paths, paths_found, edges_visited,
                   last_progress_update, cur_path, dep_index, yielded,
                   expanded, enqueued, adjacency_reads, stderr, caller, pulls>>

\* Line 68, or line 76 with an empty deque: the generator is exhausted.
Return ==
    /\ Running
    /\ \/ pc = "return"
       \/ pc = "while" /\ Len(to_walk_paths) = 0
    /\ pc' = "done"
    /\ caller' = "idle"
    /\ UNCHANGED <<goal_vars, arg_vars, visited_edges, to_walk_paths, paths_found,
                   edges_visited, last_progress_update, cur_path, dep_index,
                   yielded, expanded, enqueued, adjacency_reads, stderr, pulls>>

\* The caller asks for the next path (lines 156-158: the for statement).
CallNext ==
    /\ caller = "idle"
    /\ pc # "done"
    /\ caller' = "next"
    /\ pulls' = pulls + 1
    /\ UNCHANGED <<goal_vars, arg_vars, gen_vars>>

\* A caller that stops pulling before the generator is exhausted.
Stop ==
    /\ caller = "idle"
    /\ pc # "done"
    /\ caller' = "stopped"
    /\ UNCHANGED <<goal_vars, arg_vars, gen_vars, pulls>>

Generator == Start \/ Dequeue \/ ForDep \/ ForEnd \/ Return

Next == Generator \/ CallNext \/ Stop

Spec == Init /\ [][Next]_vars

\* The caller of lines 156-160, which pulls until the generator is exhausted.
NextFull == Generator \/ CallNext

SpecFull == Init /\ [][NextFull]_vars /\ WF_vars(NextFull)

\* The runs that reach a progress message.
SpecProgress == InitProgress /\ [][Next]_vars

(***************************************************************************)
(* The whole run as a function, as the for statement of lines 156-160      *)
(* consumes it in one piece.                                               *)
(***************************************************************************)
\* Lines 92-100 for one expanded path: the paths it yields, in order.
FoundFrom(adj, path, to) ==
    LET deps == Deps(adj, Last(path))
        ext == [i \in 1 .. Len(deps) |-> DepPath(path, deps[i])]
    IN  SelectSeq(ext, LAMBDA p : IsDestination(Last(p), to))

\* Lines 92-100 for one expanded path: the paths it appends to the deque.
QueuedFrom(adj, path, to) ==
    LET deps == Deps(adj, Last(path))
        ext == [i \in 1 .. Len(deps) |-> DepPath(path, deps[i])]
    IN  SelectSeq(ext, LAMBDA p : ~IsDestination(Last(p), to))

RECURSIVE WalkPaths(_, _, _, _)
\* Lines 76-101: the paths yielded from a deque and a visited set onwards.
WalkPaths(adj, to, queue, visited) ==
    IF Len(queue) = 0
    THEN <<>>
    ELSE LET popped == PopLeft(queue)
             current_edge == CurrentEdge(popped.path)
         IN  IF current_edge \in visited
             THEN WalkPaths(adj, to, popped.rest, visited)
             ELSE FoundFrom(adj, popped.path, to)
                      \o WalkPaths(adj, to,
                                   popped.rest \o QueuedFrom(adj, popped.path, to),
                                   visited \cup {current_edge})

\* list(find_paths_breadth_first(adj, from, to, console))
FindPaths(adj, from, to) ==
    IF from = to
    THEN << <<from>> >>
    ELSE WalkPaths(adj, to, << <<from>> >>, {})

\* The stepped generator and the function agree on every exhausted run.
StepsAgreeWithFindPaths ==
    pc = "done" => yielded = FindPaths(adjacency_lists, from_target, to_target)

(***************************************************************************)
(* The `paths` goal: paths, get_paths_between_root_and_destinations and    *)
(* get_paths_between_root_and_destination.  The engine runs the rules a    *)
(* `concurrently` call names in any interleaving and hands their results   *)
(* back in the order of the call.                                          *)
(***************************************************************************)

\* The values of --from and --to, and the targets each resolves to, in the
\* order resolve_targets returns them.  "bad" is a spec that fails to resolve.
Patterns == {"A", "AB", "BA", "DE", "ED", "none", "bad"}

PatternTargets(pattern) ==
    CASE pattern = "A" -> <<"A">>
      [] pattern = "AB" -> <<"A", "B">>
      [] pattern = "BA" -> <<"B", "A">>
      [] pattern = "DE" -> <<"D", "E">>
      [] pattern = "ED" -> <<"E", "D">>
      [] OTHER -> <<>>

ResolveFails(pattern) == pattern = "bad"

\* transitive_targets.closure of a root: the root and all it depends on.
TransitiveClosure(deps, root) == ReachableFrom(deps, {root})

\* Address.spec
AddressSpec(address) == "//:" \o address

\* json.dumps(value, indent=2) + "\n"
JsonDumps(value) == [json |-> value, indent |-> 2, end |-> "\n"]

\* One line on stderr: the source line that prints it and what it names.
Msg(line, root, dest, count) ==
    [line |-> line, root |-> root, dest |-> dest, count |-> count]

Printed(msg) == console (+) SetToBag({msg})

RootIdx == DOMAIN from_tgts

DestIdx == DOMAIN to_tgts

\* Lines 151-152: dict(zip(closure addresses, adjacent_targets_per_target))
AdjacencyOfClosure(deps, closure) == [n \in closure |-> Get(deps, n)]

\* The adjacency maps the rules can build, one per build graph and root.
ClosureMaps ==
    {AdjacencyOfClosure(graph, TransitiveClosure(graph, root)) :
         graph \in NamedGraphs, root \in Nodes}

\* list(find_paths_breadth_first(...)) for every map, root and destination
\* a rule can search, computed once.
SearchResults ==
    [adj \in ClosureMaps |->
        [from \in Nodes |-> [to \in Nodes |-> FindPaths(adj, from, to)]]]


\* Lines 155-162: the search of one pair, each path as a list of specs.
SpecPathsOf(adj, root, destination) ==
    LET found == SearchResults[adj][root][destination]
    IN  [k \in DOMAIN found |->
            [n \in DOMAIN found[k] |-> AddressSpec(found[k][n])]]

\* concurrently(...) over the destinations of root i: the results of the
\* rules, in the order of the call and not in the order they returned.
GatherPairs(i) == [j \in DestIdx |-> pair_task[<<i, j>>].paths]

\* concurrently(...) over the roots: the results in the order of the call.
GatherRoots == [i \in RootIdx |-> root_task[i].spec_paths]

\* Mutant: the roots' collections are walked from the last to the first.
FlattenReversed(spec_paths) ==
    Concat([i \in DOMAIN spec_paths |->
               Concat(spec_paths[Len(spec_paths) + 1 - i])])

\* Lines 219, 228-230: all_spec_paths, from the collections of the roots.
Flatten(spec_paths) ==
    Concat([i \in DOMAIN spec_paths |-> Concat(spec_paths[i])])

\* The goal rule before its first statement, for every pair of options,
\* build graph and set of unresolvable roots.
InitGoal ==
    /\ path_from \in Patterns \cup {None}
    /\ path_to \in Patterns \cup {None}
    /\ dependencies \in NamedGraphs
    /\ broken \in {{}, {"B"}}
    /\ goal_pc = "start"
    /\ from_tgts = <<>>
    /\ to_tgts = <<>>
    /\ root_task = <<>>
    /\ pair_task = <<>>
    /\ provider_calls = <<>>
    /\ finished = <<>>
    /\ console = EmptyBag
    /\ stdout = <<>>
    /\ exit_code = None
    /\ error = None
    \* no generator is stepped: each search runs inside its rule
    /\ adjacency_lists = <<>>
    /\ from_target = None
    /\ to_target = None
    /\ console_raises = FALSE
    /\ Created

\* Mutant: lines 186-190 are missing, the options are used as they are.
GoalStartNoCheck ==
    /\ goal_pc = "start"
    /\ console' = Printed(Msg(194, path_from, "", 0))
    /\ goal_pc' = "resolve"
    /\ UNCHANGED <<bfs_vars, path_from, path_to, dependencies, broken,
                   from_tgts, to_tgts, root_task, pair_task, provider_calls,
                   finished, stdout, exit_code, error>>

\* Lines 183-194: the options are read; a missing one raises ValueError.
GoalStart ==
    /\ goal_pc = "start"
    /\ IF path_from = None
       THEN /\ goal_pc' = "raised"
            /\ error' = "Must set --from"
            /\ UNCHANGED console
       ELSE IF path_to = None
       THEN /\ goal_pc' = "raised"
            /\ error' = "Must set --to"
            /\ UNCHANGED console
       ELSE /\ console' = Printed(Msg(194, path_from, "", 0))
            /\ goal_pc' = "resolve"
            /\ UNCHANGED error
    /\ UNCHANGED <<bfs_vars, path_from, path_to, dependencies, broken,
                   from_tgts, to_tgts, root_task, pair_task, provider_calls,
                   finished, stdout, exit_code>>

\* Lines 195-226: both patterns are resolved, then one rule per root starts.
GoalResolved ==
    /\ goal_pc = "resolve"
    /\ IF ResolveFails(path_from) \/ ResolveFails(path_to)
       THEN /\ goal_pc' = "raised"
            /\ error' = "ResolveError"
            /\ UNCHANGED <<from_tgts, to_tgts, console, root_task,
                           provider_calls>>
       ELSE /\ from_tgts' = PatternTargets(path_from)
            /\ to_tgts' = PatternTargets(path_to)
            /\ console' = Printed(Msg(218, "", "", Len(from_tgts')))
            /\ root_task' = [i \in DOMAIN from_tgts' |->
                                [pc |-> "start", spec_paths |-> <<>>]]
            /\ provider_calls' = [i \in DOMAIN from_tgts' |->
                                     [closure |-> 0, successors |-> 0]]
            /\ goal_pc' = "await"
            /\ UNCHANGED error
    /\ UNCHANGED <<bfs_vars, path_from, path_to, dependencies, broken,
                   pair_task, finished, stdout, exit_code>>

\* Lines 170-177: one rule per destination of the root starts.
RootStart(i) ==
    /\ goal_pc = "await"
    /\ root_task[i].pc = "start"
    /\ console' = Printed(Msg(170, from_tgts[i], "", Len(to_tgts)))
    /\ pair_task' = [p \in DOMAIN pair_task \cup ({i} \X DestIdx) |->
                        IF p \in DOMAIN pair_task
                        THEN pair_task[p]
                        ELSE [pc |-> "start", closure |-> {},
                              paths |-> <<>>]]
    /\ root_task' = [root_task EXCEPT ![i].pc = "await"]
    /\ UNCHANGED <<bfs_vars, path_from, path_to, dependencies, broken,
                   goal_pc, from_tgts, to_tgts, provider_calls, finished,
                   stdout, exit_code, error>>

\* Lines 131-137: the transitive targets of the pair's root are requested.
PairLoad(i, j) ==
    /\ goal_pc = "await"
    /\ <<i, j>> \in DOMAIN pair_task
    /\ pair_task[<<i, j>>].pc = "start"
    /\ console' = Printed(Msg(131, from_tgts[i], "", 0))
    /\ provider_calls' =
           [provider_calls EXCEPT ![i].closure = @ + 1]
    /\ pair_task' = [pair_task EXCEPT ![<<i, j>>].pc = "closure"]
    /\ UNCHANGED <<bfs_vars, path_from, path_to, dependencies, broken,
                   goal_pc, from_tgts, to_tgts, root_task, finished, stdout,
                   exit_code, error>>

\* Mutant: the await of lines 132-137 sits in a try block whose handler
\* returns the empty SpecsPaths.
PairClosureSwallows(i, j) ==
    /\ goal_pc = "await"
    /\ <<i, j>> \in DOMAIN pair_task
    /\ pair_task[<<i, j>>].pc = "closure"
    /\ IF from_tgts[i] \in broken
       THEN /\ pair_task' = [pair_task EXCEPT ![<<i, j>>].pc = "done"]
            /\ UNCHANGED <<console, provider_calls>>
       ELSE LET closure == TransitiveClosure(dependencies, from_tgts[i])
            IN  /\ console' =
                       Printed(Msg(139, "", "", Cardinality(closure)))
                /\ provider_calls' =
                       [provider_calls EXCEPT ![i].successors = @ + 1]
                /\ pair_task' =
                       [pair_task EXCEPT ![<<i, j>>].pc = "deps",
                                         ![<<i, j>>].closure = closure]
    /\ UNCHANGED <<bfs_vars, path_from, path_to, dependencies, broken,
                   goal_pc, from_tgts, to_tgts, root_task, finished, stdout,
                   exit_code, error>>

\* Lines 132-149: the closure arrives, or its resolution raises; the
\* dependencies of every target of the closure are requested.
PairClosure(i, j) ==
    /\ goal_pc = "await"
    /\ <<i, j>> \in DOMAIN pair_task
    /\ pair_task[<<i, j>>].pc = "closure"
    /\ IF from_tgts[i] \in broken
       THEN /\ pair_task' = [pair_task EXCEPT ![<<i, j>>].pc = "raised"]
            /\ UNCHANGED <<console, provider_calls>>
       ELSE LET closure == TransitiveClosure(dependencies, from_tgts[i])
            IN  /\ console' =
                       Printed(Msg(139, "", "", Cardinality(closure)))
                /\ provider_calls' =
                       [provider_calls EXCEPT ![i].successors = @ + 1]
                /\ pair_task' =
                       [pair_task EXCEPT ![<<i, j>>].pc = "deps",
                                         ![<<i, j>>].closure = closure]
    /\ UNCHANGED <<bfs_vars, path_from, path_to, dependencies, broken,
                   goal_pc, from_tgts, to_tgts, root_task, finished, stdout,
                   exit_code, error>>

RECURSIVE VisitedAfter(_, _, _, _)
\* Lines 76-101: the visited set a search leaves behind.
VisitedAfter(adj, to, queue, visited) ==
    IF Len(queue) = 0
    THEN visited
    ELSE LET popped == PopLeft(queue)
             current_edge == CurrentEdge(popped.path)
         IN  IF current_edge \in visited
             THEN VisitedAfter(adj, to, popped.rest, visited)
             ELSE VisitedAfter(adj, to,
                               popped.rest \o QueuedFrom(adj, popped.path, to),
                               visited \cup {current_edge})

RECURSIVE SharedVisited(_)
\* The contents of a visited set that all searches share, after the first
\* k searches that finished.
SharedVisited(k) ==
    IF k = 0
    THEN {}
    ELSE LET p == finished[k]
             root == from_tgts[p[1]]
             destination == to_tgts[p[2]]
             adj == AdjacencyOfClosure(dependencies, pair_task[p].closure)
         IN  IF root = destination
             THEN SharedVisited(k - 1)
             ELSE VisitedAfter(adj, destination, << <<root>> >>,
                               SharedVisited(k - 1))

\* Mutant: visited_edges is a module-level set that every search adds to
\* and none resets.
PairFindSharedVisited(i, j) ==
    /\ goal_pc = "await"
    /\ <<i, j>> \in DOMAIN pair_task
    /\ pair_task[<<i, j>>].pc = "deps"
    /\ LET adj == AdjacencyOfClosure(dependencies,
                                     pair_task[<<i, j>>].closure)
           found == IF from_tgts[i] = to_tgts[j]
                    THEN << <<from_tgts[i]>> >>
                    ELSE WalkPaths(adj, to_tgts[j], << <<from_tgts[i]>> >>,
                                   SharedVisited(Len(finished)))
       IN  pair_task' =
               [pair_task EXCEPT
                   ![<<i, j>>].pc = "done",
                   ![<<i, j>>].paths =
                       [k \in DOMAIN found |->
                           [n \in DOMAIN found[k] |->
                               AddressSpec(found[k][n])]]]
    /\ console' = Printed(Msg(154, from_tgts[i], to_tgts[j], 0))
    /\ finished' = Append(finished, <<i, j>>)
    /\ UNCHANGED <<bfs_vars, path_from, path_to, dependencies, broken,
                   goal_pc, from_tgts, to_tgts, root_task, provider_calls,
                   stdout, exit_code, error>>

\* Lines 151-162: the adjacency map is built and searched to the end.
PairFind(i, j) ==
    /\ goal_pc = "await"
    /\ <<i, j>> \in DOMAIN pair_task
    /\ pair_task[<<i, j>>].pc = "deps"
    /\ LET adj == AdjacencyOfClosure(dependencies,
                                     pair_task[<<i, j>>].closure)
       IN  pair_task' =
               [pair_task EXCEPT
                   ![<<i, j>>].pc = "done",
                   ![<<i, j>>].paths =
                       SpecPathsOf(adj, from_tgts[i], to_tgts[j])]
    /\ console' = Printed(Msg(154, from_tgts[i], to_tgts[j], 0))
    /\ finished' = Append(finished, <<i, j>>)
    /\ UNCHANGED <<bfs_vars, path_from, path_to, dependencies, broken,
                   goal_pc, from_tgts, to_tgts, root_task, provider_calls,
                   stdout, exit_code, error>>

\* Lines 171-178: the rules of the root's destinations have all returned,
\* or one of them raised.
RootReturn(i) ==
    /\ goal_pc = "await"
    /\ root_task[i].pc = "await"
    /\ IF \E j \in DestIdx : pair_task[<<i, j>>].pc = "raised"
       THEN root_task' = [root_task EXCEPT ![i].pc = "raised"]
       ELSE /\ \A j \in DestIdx : pair_task[<<i, j>>].pc = "done"
            /\ root_task' =
                   [root_task EXCEPT
                       ![i].pc = "done",
                       ![i].spec_paths = GatherPairs(i)]
    /\ UNCHANGED <<bfs_vars, path_from, path_to, dependencies, broken,
                   goal_pc, from_tgts, to_tgts, pair_task, provider_calls,
                   finished, console, stdout, exit_code, error>>

\* Mutant: an empty all_spec_paths is reported as exit code 1 and is not
\* written.
GoalFinishFailsOnEmpty ==
    /\ goal_pc = "await"
    /\ IF \E i \in RootIdx : root_task[i].pc = "raised"
       THEN /\ goal_pc' = "raised"
            /\ error' = "ResolveError"
            /\ UNCHANGED <<stdout, exit_code>>
       ELSE /\ \A i \in RootIdx : root_task[i].pc = "done"
            /\ LET spec_paths == GatherRoots
               IN  IF Flatten(spec_paths) = <<>>
                   THEN /\ exit_code' = 1
                        /\ UNCHANGED stdout
                   ELSE /\ stdout' = Append(stdout,
                                            JsonDumps(Flatten(spec_paths)))
                        /\ exit_code' = 0
            /\ goal_pc' = "done"
            /\ UNCHANGED error
    /\ UNCHANGED <<bfs_vars, path_from, path_to, dependencies, broken,
                   from_tgts, to_tgts, root_task, pair_task, provider_calls,
                   finished, console>>

\* Lines 220-235: the rules of the roots have all returned, the paths are
\* flattened and written; or one of the rules raised.
GoalFinish ==
    /\ goal_pc = "await"
    /\ IF \E i \in RootIdx : root_task[i].pc = "raised"
       THEN /\ goal_pc' = "raised"
            /\ error' = "ResolveError"
            /\ UNCHANGED <<stdout, exit_code>>
       ELSE /\ \A i \in RootIdx : root_task[i].pc = "done"
            /\ LET spec_paths == GatherRoots
               IN  stdout' = Append(stdout, JsonDumps(Flatten(spec_paths)))
            /\ exit_code' = 0
            /\ goal_pc' = "done"
            /\ UNCHANGED error
    /\ UNCHANGED <<bfs_vars, path_from, path_to, dependencies, broken,
                   from_tgts, to_tgts, root_task, pair_task, provider_calls,
                   finished, console>>

NextGoal ==
    \/ GoalStart
    \/ GoalResolved
    \/ \E i \in RootIdx : RootStart(i)
    \/ \E i \in RootIdx, j \in DestIdx : PairLoad(i, j)
    \/ \E i \in RootIdx, j \in DestIdx : PairClosure(i, j)
    \/ \E i \in RootIdx, j \in DestIdx : PairFind(i, j)
    \/ \E i \in RootIdx : RootReturn(i)
    \/ GoalFinish

SpecGoal == InitGoal /\ [][NextGoal]_vars

\* The engine keeps running the rules that can run until the goal returns
\* or raises.
SpecGoalFair == InitGoal /\ [][NextGoal]_vars /\ WF_vars(NextGoal)

(***************************************************************************)
(* Graph notions the properties are stated with, independent of the search *)
(***************************************************************************)
RECURSIVE SimplePathsFrom(_, _, _)
\* The extensions of a path to `to` that repeat no node.
SimplePathsFrom(adj, path, to) ==
    IF Last(path) = to
    THEN {path}
    ELSE UNION {SimplePathsFrom(adj, Append(path, s), to) :
                    s \in Range(Get(adj, Last(path))) \ Range(path)}

SameGraph(adj, g) == \A n \in Nodes \cup DOMAIN adj : Get(adj, n) = Get(g, n)

Unreachable ==
    /\ from_target # to_target
    /\ to_target \notin ReachableFrom(adjacency_lists, {from_target})

(***************************************************************************)
(* Properties of find_paths_breadth_first                                  *)
(***************************************************************************)

\* C1: with root # destination, an exhausted run has yielded every simple
\* path from the root to the destination that the adjacency map holds.
C1_AllSimplePathsYielded ==
    (pc = "done" /\ from_target # to_target)
        => SimplePathsFrom(adjacency_lists, <<from_target>>, to_target)
               \subseteq Range(yielded)

\* C2: the paths of one run are yielded in non-decreasing length order.
C2_NonDecreasingLength ==
    \A i, j \in DOMAIN yielded :
        i < j => Len(yielded[i]) <= Len(yielded[j])

\* C2 witness: an exhausted run that yielded a shorter, then a longer path.
C2_Witness ==
    /\ pc = "done"
    /\ \E i, j \in DOMAIN yielded : i < j /\ Len(yielded[i]) < Len(yielded[j])

\* C3: a run that is pulled to the end terminates, cycles or not.
C3_Terminates == <>(pc = "done")

\* C3 witness: an exhausted run that walked round a cycle (an expanded
\* path repeats a node).
C3_Witness ==
    /\ pc = "done"
    /\ \E i \in DOMAIN expanded :
           Cardinality(Range(expanded[i])) < Len(expanded[i])

CycleCase ==
    /\ SameGraph(adjacency_lists, CycleGraph)
    /\ from_target = "A"
    /\ to_target = "C"

\* C4 as stated: on A->B, B->A, A->C from A to C the run yields [A, C] only.
C4_OnlyDirectPath ==
    (CycleCase /\ pc = "done") => yielded = << <<"A", "C">> >>

\* C4 amended: on A->B, B->A, A->C from A to C the run terminates and
\* yields [A, C] and then [A, B, A, C], the path once round the cycle.
C4_CycleYieldsTwo ==
    CycleCase ~>
        (pc = "done" /\ yielded = << <<"A", "C">>, <<"A", "B", "A", "C">> >>)

\* C4 witness: the run on the cycle graph is exhausted after the path
\* [A, B, A, B] was discarded at its visited edge.
C4_Witness ==
    /\ CycleCase
    /\ pc = "done"
    /\ cur_path = <<"A", "B", "A", "B">>

\* C5: with root = destination the run yields [root] and nothing else, and
\* it expands no edge and never reads the adjacency map.
C5_SelfPath ==
    from_target = to_target =>
        /\ yielded = IF pc = "start" THEN <<>> ELSE << <<from_target>> >>
        /\ edges_visited = 0
        /\ adjacency_reads = 0
        /\ Len(to_walk_paths) = 0
        /\ visited_edges = {}

\* C5 witness: an exhausted self-path run whose root lies on a cycle.
C5_Witness ==
    /\ from_target = to_target
    /\ pc = "done"
    /\ \E n \in Range(Get(adjacency_lists, from_target)) :
           from_target \in ReachableFrom(adjacency_lists, {n})

\* C6: when the destination is not reachable from the root, the run ends
\* normally and has yielded nothing.
C6_UnreachableYieldsNothing ==
    Unreachable ~> (pc = "done" /\ Len(yielded) = 0)

\* C6 witness: an exhausted run without a path that expanded a node which
\* is not a key of the map.
C6_Witness ==
    /\ Unreachable
    /\ pc = "done"
    /\ \E i \in DOMAIN expanded : Last(expanded[i]) \notin DOMAIN adjacency_lists

DiamondCase ==
    /\ SameGraph(adjacency_lists, DiamondGraph)
    /\ from_target = "A"
    /\ to_target = "D"

\* C7: the yield order is the order in which the prefixes were dequeued,
\* then the successor order of the map; the diamond yields [A, B, D] and
\* then [A, C, D].
C7_YieldOrder ==
    (pc = "done" /\ from_target # to_target) =>
        /\ yielded =
               Concat([i \in DOMAIN expanded |->
                          LET succ == Get(adjacency_lists, Last(expanded[i]))
                              ext == [k \in DOMAIN succ |->
                                          Append(expanded[i], succ[k])]
                          IN  SelectSeq(ext, LAMBDA p : Last(p) = to_target)])
        /\ DiamondCase =>
               yielded = << <<"A", "B", "D">>, <<"A", "C", "D">> >>

\* C7 witness: the exhausted run on the diamond.
C7_Witness == DiamondCase /\ pc = "done" /\ Len(yielded) = 2

\* C10: the generator moves only inside a pull of its caller, every yield
\* hands control back, and a caller that is not pulling sees no dequeue,
\* no expansion and no notification.
C10_Lazy ==
    [][/\ caller # "next" => UNCHANGED gen_vars
       /\ yielded' # yielded => caller' = "idle"
       /\ Len(yielded') <= pulls']_vars

\* C10 witness: the caller stopped after a yield while paths were still
\* waiting in the deque.
C10_Witness ==
    /\ caller = "stopped"
    /\ Len(yielded) >= 1
    /\ Len(to_walk_paths) > 0

\* The edge a path arrives by: (predecessor or None, last node).
EdgeOf(path) ==
    IF Len(path) = 1
    THEN <<None, path[1]>>
    ELSE <<path[Len(path) - 1], path[Len(path)]>>

\* The edges of the map, and the edge the root is entered by.
GraphEdges(adj, root) ==
    {<<None, root>>}
        \cup UNION {{<<u, v>> : v \in Range(adj[u])} : u \in DOMAIN adj}

\* C14: no edge is expanded twice in a run: the expanded paths arrive by
\* pairwise different edges, there are no more of them than the map has
\* edges, the successors are read once per expanded path, and a dequeued
\* path whose edge is already visited is dropped without any read, yield
\* or append.
C14_EdgeExpandedOnce ==
    /\ [](/\ \A i, j \in DOMAIN expanded :
                 i # j => EdgeOf(expanded[i]) # EdgeOf(expanded[j])
          /\ visited_edges \subseteq {EdgeOf(expanded[i]) : i \in DOMAIN expanded}
          /\ adjacency_reads = Len(expanded)
          /\ edges_visited = Len(expanded)
          /\ Len(expanded)
                 <= Cardinality(GraphEdges(adjacency_lists, from_target)))
    /\ [][(/\ Len(to_walk_paths') < Len(to_walk_paths)
           /\ EdgeOf(Head(to_walk_paths)) \in visited_edges)
              => /\ to_walk_paths' = Tail(to_walk_paths)
                 /\ pc' = "while"
                 /\ UNCHANGED <<adjacency_reads, expanded, enqueued, yielded,
                                visited_edges, edges_visited>>]_vars

\* C14 witness: an exhausted run in which a path was put into the deque
\* and dropped when it was dequeued.
C14_Witness ==
    /\ pc = "done"
    /\ \E k \in DOMAIN enqueued : enqueued[k] \notin Range(expanded)

\* The path takes no step (u, v) at two of its positions.
NoEdgeTwice(path) ==
    \A a, b \in 1 .. Len(path) - 1 :
        a # b => <<path[a], path[a + 1]>> # <<path[b], path[b + 1]>>

\* C15: no yielded path and no expanded path takes the same edge twice.
C15_NoEdgeTwiceInPath ==
    \A path \in Range(yielded) \cup Range(expanded) : NoEdgeTwice(path)

\* C15 witness: an exhausted run yielded a path that passes a node twice,
\* by different edges.
C15_Witness ==
    /\ pc = "done"
    /\ \E k \in DOMAIN yielded :
           Cardinality(Range(yielded[k])) < Len(yielded[k])

\* C16: whatever console.print_stderr does at a progress message, no
\* exception reaches the caller, and the exhausted run has yielded the paths
\* of the run with a console that prints.
C16_ConsoleNeverAltersRun ==
    /\ caller # "raised"
    /\ pc # "raised"
    /\ pc = "done" =>
           yielded = FindPaths(adjacency_lists, from_target, to_target)

\* The path is a walk of the map from root to destination that meets the
\* destination at its end only.
WellFormedWalk(adj, path, root, destination) ==
    /\ Len(path) >= 2
    /\ path[1] = root
    /\ path[Len(path)] = destination
    /\ \A a \in 1 .. Len(path) - 1 :
           /\ path[a + 1] \in Range(Get(adj, path[a]))
           /\ path[a] # destination

\* C17: with root # destination every yielded path has at least two nodes,
\* starts at the root, ends at the destination, steps along successor
\* lists only, and holds the destination as its last node only.
C17_YieldedPathsAreWalks ==
    from_target # to_target =>
        \A k \in DOMAIN yielded :
            WellFormedWalk(adjacency_lists, yielded[k], from_target, to_target)

\* C17 witness: an exhausted run yielded a path of three or more edges.
C17_Witness ==
    /\ pc = "done"
    /\ from_target # to_target
    /\ \E k \in DOMAIN yielded : Len(yielded[k]) >= 4

RECURSIVE LevelOf(_, _, _, _)
\* The number of edges of a shortest walk from the nodes of `reached`
\* (which lie `level` edges from the root) to `to`; -1 when there is none.
LevelOf(adj, reached, to, level) ==
    LET more == reached \cup UNION {Range(Get(adj, n)) : n \in reached}
    IN  IF to \in reached THEN level
        ELSE IF more = reached THEN -1
        ELSE LevelOf(adj, more, to, level + 1)

\* The graph distance from root to destination.
Distance(adj, root, destination) == LevelOf(adj, {root}, destination, 0)

\* C18: with root # destination, the first path a run yields has as many
\* edges as the graph distance from root to destination, and an exhausted
\* run has yielded a path whenever the destination is reachable.
C18_FirstPathIsShortest ==
    from_target # to_target =>
        /\ Len(yielded) >= 1 =>
               Len(yielded[1]) - 1
                   = Distance(adjacency_lists, from_target, to_target)
        /\ (pc = "done" /\ Distance(adjacency_lists, from_target, to_target) > 0)
               => Len(yielded) >= 1

\* C18 witness: an exhausted run whose first path has two or more edges and
\* which yielded a longer path after it.
C18_Witness ==
    /\ pc = "done"
    /\ from_target # to_target
    /\ Len(yielded) >= 2
    /\ Len(yielded[1]) >= 3
    /\ Len(yielded[Len(yielded)]) > Len(yielded[1])

\* No successor list of the map names a node twice.
NoDuplicateSuccessor(adj) ==
    \A n \in DOMAIN adj : Cardinality(Range(adj[n])) = Len(adj[n])

\* The entries of the sequence are pairwise different.
Distinct(seq) == \A a, b \in DOMAIN seq : a # b => seq[a] # seq[b]

\* C19: when no successor list names a node twice, no path is put into the
\* deque twice and no path is yielded twice.
C19_NoPathTwice ==
    NoDuplicateSuccessor(adjacency_lists) =>
        /\ Distinct(enqueued)
        /\ Distinct(yielded)

\* C19 witness: an exhausted run on a map without duplicates that yielded
\* several paths and dropped a path at a visited edge.
C19_Witness ==
    /\ NoDuplicateSuccessor(adjacency_lists)
    /\ pc = "done"
    /\ Len(yielded) >= 2
    /\ \E k \in DOMAIN enqueued : enqueued[k] \notin Range(expanded)

(***************************************************************************)
(* Properties of the `paths` goal                                          *)
(***************************************************************************)

\* The paths of one pair, searched in the adjacency map of the pair's root.
PairPaths(i, j) ==
    LET closure == TransitiveClosure(dependencies, from_tgts[i])
    IN  SpecPathsOf(AdjacencyOfClosure(dependencies, closure),
                    from_tgts[i], to_tgts[j])

\* The position in from_tgts of the root a written path starts at.
RootPos(path) == CHOOSE i \in RootIdx : AddressSpec(from_tgts[i]) = path[1]

\* The position in to_tgts of the destination a written path ends at.
DestPos(path) == CHOOSE j \in DestIdx : AddressSpec(to_tgts[j]) = Last(path)

\* C8: what the goal writes is the paths of the pairs, roots in input
\* order, destinations in input order within a root, paths in discovery
\* order within a pair, whatever order the rules returned in.
C8_FlattenInInputOrder ==
    goal_pc = "done" =>
        /\ Len(stdout) = 1
        /\ LET out == stdout[1].json
           IN  /\ out = Concat([i \in RootIdx |->
                                   Concat([j \in DestIdx |-> PairPaths(i, j)])])
               /\ \A p, q \in DOMAIN out :
                      p < q =>
                          /\ RootPos(out[p]) <= RootPos(out[q])
                          /\ RootPos(out[p]) = RootPos(out[q])
                                 => DestPos(out[p]) <= DestPos(out[q])

\* C8 witness: two roots and two destinations, the rules returned in the
\* reverse of the input order, and paths of both roots were written.
C8_Witness ==
    /\ goal_pc = "done"
    /\ Len(from_tgts) = 2
    /\ Len(to_tgts) = 2
    /\ finished = << <<2, 2>>, <<2, 1>>, <<1, 2>>, <<1, 1>> >>
    /\ \E p, q \in DOMAIN stdout[1].json :
           RootPos(stdout[1].json[p]) # RootPos(stdout[1].json[q])

\* C9: for a root with at least one destination, the closure and the
\* successor lists are each resolved exactly once, however many
\* destinations there are.
C9_OneResolutionPerRoot ==
    goal_pc = "done" =>
        \A i \in RootIdx :
            Len(to_tgts) >= 1 =>
                provider_calls[i] = [closure |-> 1, successors |-> 1]

\* C11: with --from or --to missing the goal raises before any graph work:
\* no pattern is resolved, no rule starts, no resolution is requested, and
\* nothing is printed or written.
C11_MissingOptionAborts ==
    (path_from = None \/ path_to = None) =>
        /\ goal_pc \in {"start", "raised"}
        /\ goal_pc = "raised" =>
               error = IF path_from = None
                       THEN "Must set --from"
                       ELSE "Must set --to"
        /\ from_tgts = <<>>
        /\ to_tgts = <<>>
        /\ root_task = <<>>
        /\ pair_task = <<>>
        /\ provider_calls = <<>>
        /\ finished = <<>>
        /\ console = EmptyBag
        /\ stdout = <<>>
        /\ exit_code = None

\* C11 witness: --from is given, --to is missing, and the goal has raised.
C11_Witness ==
    /\ goal_pc = "raised"
    /\ path_from # None
    /\ path_to = None

\* The resolution of one of the two patterns has raised.
PatternFailed ==
    /\ path_from # None
    /\ path_to # None
    /\ ResolveFails(path_from) \/ ResolveFails(path_to)
    /\ goal_pc \notin {"start", "resolve"}

\* The resolution of the transitive targets of some root has raised.
ProviderFailed ==
    \E p \in DOMAIN pair_task :
        /\ from_tgts[p[1]] \in broken
        /\ pair_task[p].pc \notin {"start", "closure"}

\* The number of rules of root i that have requested its transitive targets.
Requested(i) ==
    Cardinality({j \in DestIdx : /\ <<i, j>> \in DOMAIN pair_task
                                 /\ pair_task[<<i, j>>].pc # "start"})

\* C12: once the resolution of a pattern or of a root's transitive targets
\* has raised, nothing is written and no exit code is set, no rule asks
\* again, and the goal ends by raising the failure.
C12_FailureAbortsEverything ==
    /\ [](PatternFailed \/ ProviderFailed =>
              /\ stdout = <<>>
              /\ exit_code = None
              /\ goal_pc # "done"
              /\ \A i \in DOMAIN provider_calls :
                     provider_calls[i].closure = Requested(i))
    /\ (PatternFailed \/ ProviderFailed) ~>
           (goal_pc = "raised" /\ error = "ResolveError")

\* C12 witness: the goal raised although the rule of another pair had
\* returned paths.
C12_Witness ==
    /\ goal_pc = "raised"
    /\ error = "ResolveError"
    /\ \E p, q \in DOMAIN pair_task :
           /\ pair_task[p].pc = "done"
           /\ pair_task[p].paths # <<>>
           /\ pair_task[q].pc = "raised"

\* Both options are set and both patterns resolve.
OptionsResolve ==
    /\ path_from # None
    /\ path_to # None
    /\ ~ResolveFails(path_from)
    /\ ~ResolveFails(path_to)

\* One of the patterns resolves to no target.
EmptyResolution ==
    /\ OptionsResolve
    /\ PatternTargets(path_from) = <<>> \/ PatternTargets(path_to) = <<>>

\* Every root resolves, and no destination is a root or reachable from one.
NoPairHasPath ==
    /\ OptionsResolve
    /\ \A root \in Range(PatternTargets(path_from)) :
           /\ root \notin broken
           /\ \A destination \in Range(PatternTargets(path_to)) :
                  destination \notin ReachableFrom(dependencies, {root})

\* C13: with no root, no destination, or no path between any pair, the goal
\* ends with exit code 0 after writing the empty list of paths; with no
\* root or no destination no pair rule ever starts, so nothing is resolved
\* and nothing is searched.
C13_EmptyResultSucceeds ==
    /\ [](EmptyResolution =>
              /\ pair_task = <<>>
              /\ finished = <<>>
              /\ \A i \in DOMAIN provider_calls :
                     provider_calls[i] = [closure |-> 0, successors |-> 0])
    /\ (EmptyResolution \/ NoPairHasPath) ~>
           /\ goal_pc = "done"
           /\ stdout = <<JsonDumps(<<>>)>>
           /\ exit_code = 0

\* C13 witness: the goal succeeded with roots and no destination; one of
\* the roots would not have resolved, and was never asked for.
C13_Witness ==
    /\ goal_pc = "done"
    /\ Len(to_tgts) = 0
    /\ \E i \in RootIdx : from_tgts[i] \in broken
    /\ \A i \in RootIdx : root_task[i].pc = "done"

\* C20: what a rule returns depends on its own root and destination only,
\* whatever the other rules have done and in whatever order: a finished
\* search holds the paths of its pair, a finished root holds those of its
\* pairs, no later step changes either, and the goal writes the paths of
\* all pairs.
C20_ResultIndependentOfInterleaving ==
    /\ [](/\ \A p \in DOMAIN pair_task :
                 pair_task[p].pc = "done"
                     => pair_task[p].paths = PairPaths(p[1], p[2])
          /\ \A i \in DOMAIN root_task :
                 root_task[i].pc = "done"
                     => root_task[i].spec_paths
                            = [j \in DestIdx |-> PairPaths(i, j)]
          /\ goal_pc = "done"
                 => stdout = <<JsonDumps(Flatten(
                        [i \in RootIdx |->
                            [j \in DestIdx |-> PairPaths(i, j)]]))>>)
    /\ [][/\ \A p \in DOMAIN pair_task :
                 pair_task[p].pc = "done"
                     => (p \in DOMAIN pair_task' /\ pair_task'[p] = pair_task[p])
          /\ \A i \in DOMAIN root_task :
                 root_task[i].pc = "done"
                     => (i \in DOMAIN root_task' /\ root_task'[i] = root_task[i])
         ]_vars

\* C20 witness: the goal wrote the paths of four pairs that all have paths;
\* the searches of the two roots finished interleaved.
C20_Witness ==
    /\ goal_pc = "done"
    /\ Len(from_tgts) = 2
    /\ Len(to_tgts) = 2
    /\ \A p \in DOMAIN pair_task : pair_task[p].paths # <<>>
    /\ finished[1][1] # finished[2][1]
    /\ finished[3][1] # finished[4][1]

====
